---------------------------- MODULE Spec2Model ----------------------------
(***************************************************************************)
(* Crossword generator of script.js: the Grid class, the placement         *)
(* validator comprobarEspacio, colocarPalabra, encontrarInterseccion, the  *)
(* builder generarCrucigrama, the numbering pass of dibujarGrid and the    *)
(* page's handlers (vocabulary fetch, unit selection, generate button).    *)
(*                                                                         *)
(* A JS string is a sequence of one-character strings; JS index i is       *)
(* position i + 1 of the sequence.  JS null in a grid cell is NULL.  A JS  *)
(* value that is "null or an object" is a sequence of length 0 or 1.       *)
(***************************************************************************)
EXTENDS Integers, Sequences, FiniteSets, TLC

(* ------------------------------ constants ------------------------------ *)

GRID_SIZE == 20

MAX_INTENTOS == 100

\* numPalabras passed by the generate handler: generarCrucigrama(palabras, 10)
NUM_PALABRAS == 10

\* bounds of the model: the size of a pool, of a pool under SpecJusta, and the
\* targets 1..MaxTarget tried beside NUM_PALABRAS
MaxPool == 3

MaxPoolJusta == 2

MaxTarget == 2

\* the side of the grids comprobarEspacio is tried on, and how many of their
\* cells hold a letter
TamPrueba == 3

MaxOcupadas == 2

\* the length of the lists the numbering pass is tried on
MaxNumeradas == 3

\* how many puzzles the page generates
MaxGeneraciones == 2

\* the length of the vocabularies the word filter is tried on
MaxVocabulario == 2

\* the texts of the alerts, without the names of the units
ALERTA_VACIO == "No hay palabras disponibles para esta unidad."

ALERTA_NO_ENCONTRADAS == "No se encontraron palabras para"

ALERTA_SIN_UNIDADES ==
    "Selecciona al menos una unidad lexica antes de generar el crucigrama."

ALERTA_MARCAR_UNIDAD == "Selecciona al menos una unidad para jugar."

ALERTA_ERROR_CARGA == "Error al cargar el diccionario."

NULL == "null"

(* ------------------------------- strings ------------------------------- *)

LOWER == <<"a","b","c","d","e","f","g","i","l","m","n","o","p","r","s","t">>

UPPER == <<"A","B","C","D","E","F","G","I","L","M","N","O","P","R","S","T">>

\* String.prototype.toUpperCase, one character
UpperChar(c) ==
    IF \E k \in 1..Len(LOWER) : LOWER[k] = c
    THEN UPPER[CHOOSE k \in 1..Len(LOWER) : LOWER[k] = c]
    ELSE c

\* String.prototype.toLowerCase, one character
LowerChar(c) ==
    IF \E k \in 1..Len(UPPER) : UPPER[k] = c
    THEN LOWER[CHOOSE k \in 1..Len(UPPER) : UPPER[k] = c]
    ELSE c

\* (the concatenation with <<>> only makes TLC hold the result as a tuple)
toUpperCase(s) == [k \in 1..Len(s) |-> UpperChar(s[k])] \o <<>>

toLowerCase(s) == [k \in 1..Len(s) |-> LowerChar(s[k])] \o <<>>

\* palabra[i] with the 0-based index of the source
Letra(palabra, i) == palabra[i + 1]

(* -------------------------------- Grid --------------------------------- *)

\* new Grid(size): size x size cells, all null; cells[y][x]
NuevoGrid(size) ==
    [size |-> size,
     cells |-> [y \in 0..(size - 1) |-> [x \in 0..(size - 1) |-> NULL]]]

\* the local `grid` of generarCrucigrama before `new Grid` has run
NoGrid == [size |-> 0, cells |-> <<>>]

esValido(g, x, y) == x >= 0 /\ x < g.size /\ y >= 0 /\ y < g.size

obtenerCelda(g, x, y) == IF ~esValido(g, x, y) THEN NULL ELSE g.cells[y][x]

establecerCelda(g, x, y, valor) ==
    IF esValido(g, x, y) THEN [g EXCEPT !.cells[y][x] = valor] ELSE g

(* --------------------------- comprobarEspacio -------------------------- *)

Dx(orientacion) == IF orientacion = "horizontal" THEN 1 ELSE 0

Dy(orientacion) == IF orientacion = "vertical" THEN 1 ELSE 0

\* LadosLibres that tests only the side cell above or to the left
LadosLibresUnLado(g, cx, cy, orientacion) ==
    IF orientacion = "horizontal"
    THEN obtenerCelda(g, cx, cy - 1) = NULL
    ELSE obtenerCelda(g, cx - 1, cy) = NULL

\* LadosLibres without the test of the two side cells
LadosLibresOmitido(g, cx, cy, orientacion) == TRUE

\* the adjacency test of an empty target cell (lines 326-334): TRUE when the
\* code does not return false
LadosLibres(g, cx, cy, orientacion) ==
    IF orientacion = "horizontal"
    THEN /\ obtenerCelda(g, cx, cy - 1) = NULL
         /\ obtenerCelda(g, cx, cy + 1) = NULL
    ELSE /\ obtenerCelda(g, cx - 1, cy) = NULL
         /\ obtenerCelda(g, cx + 1, cy) = NULL

\* LetraCabe with && in place of || in the test of an occupied cell
LetraCabeY(g, palabra, x, y, orientacion, indiceInterseccion, i) ==
    LET currentX == x + Dx(orientacion) * i
        currentY == y + Dy(orientacion) * i
        celdaActual == obtenerCelda(g, currentX, currentY)
        letraActual == Letra(palabra, i)
    IN  IF celdaActual # NULL
        THEN ~(i # indiceInterseccion /\ celdaActual # letraActual)
        ELSE LadosLibres(g, currentX, currentY, orientacion)

\* the body of the for loop for one i (lines 312-335): TRUE when it does not
\* return false
LetraCabe(g, palabra, x, y, orientacion, indiceInterseccion, i) ==
    LET currentX == x + Dx(orientacion) * i
        currentY == y + Dy(orientacion) * i
        celdaActual == obtenerCelda(g, currentX, currentY)
        letraActual == Letra(palabra, i)
    IN  IF celdaActual # NULL
        THEN ~(i # indiceInterseccion \/ celdaActual # letraActual)
        ELSE LadosLibres(g, currentX, currentY, orientacion)

\* the for loop (lines 311-336): it returns false at the first i that does
\* not fit and falls through when every i fits
RecorrerLetras(g, palabra, x, y, orientacion, indiceInterseccion) ==
    \A i \in 0..(Len(palabra) - 1) :
        LetraCabe(g, palabra, x, y, orientacion, indiceInterseccion, i)

comprobarEspacio(g, palabra, x, y, orientacion, indiceInterseccion) ==
    LET dx == Dx(orientacion)
        dy == Dy(orientacion)
        finalX == x + dx * (Len(palabra) - 1)
        finalY == y + dy * (Len(palabra) - 1)
        antesX == x - dx
        antesY == y - dy
        despuesX == finalX + dx
        despuesY == finalY + dy
    IN  IF ~esValido(g, finalX, finalY) THEN FALSE
        ELSE IF ~RecorrerLetras(g, palabra, x, y, orientacion,
                                indiceInterseccion) THEN FALSE
        ELSE IF esValido(g, antesX, antesY)
                /\ obtenerCelda(g, antesX, antesY) # NULL THEN FALSE
        ELSE IF esValido(g, despuesX, despuesY)
                /\ obtenerCelda(g, despuesX, despuesY) # NULL THEN FALSE
        ELSE TRUE

(* ---------------------------- colocarPalabra --------------------------- *)

\* the indices i of the loop whose target (x + dx*i, y + dy*i) is (cx, cy);
\* a word runs along one axis, so there is at most one
IndicesEn(palabra, x, y, orientacion, cx, cy) ==
    {i \in 0..(Len(palabra) - 1) :
        cx = x + Dx(orientacion) * i /\ cy = y + Dy(orientacion) * i}

\* the grid after the loop of establecerCelda calls: a cell that is the target
\* of an index i holds palabra[i], every other cell is unchanged; a target
\* outside the grid is no cell of `cells`, as establecerCelda drops the write
colocarPalabra(g, palabra, x, y, orientacion) ==
    [g EXCEPT !.cells =
        [cy \in DOMAIN g.cells |->
            [cx \in DOMAIN g.cells[cy] |->
                LET is == IndicesEn(palabra, x, y, orientacion, cx, cy)
                IN  IF is # {} /\ esValido(g, cx, cy)
                    THEN Letra(palabra, CHOOSE i \in is : TRUE)
                    ELSE g.cells[cy][cx]]]]

(* ------------------------- encontrarInterseccion ----------------------- *)

\* nuevoX of lines 393-398 (only used when the orientations differ)
NuevoX(palabraAncla, i, j) ==
    IF palabraAncla.orientacion = "horizontal"
    THEN palabraAncla.x + j
    ELSE palabraAncla.x - i

\* NuevoY with the sign of i wrong for a horizontal anchor
NuevoYSigno(palabraAncla, i, j) ==
    IF palabraAncla.orientacion = "horizontal"
    THEN palabraAncla.y + i
    ELSE palabraAncla.y + j

\* nuevoY of lines 393-398
NuevoY(palabraAncla, i, j) ==
    IF palabraAncla.orientacion = "horizontal"
    THEN palabraAncla.y - i
    ELSE palabraAncla.y + j

\* whether the pair (i, j) makes the function return (lines 389-406)
ParValido(g, palabraAncla, nuevaPalabra, nuevaOrientacion, i, j) ==
    /\ Letra(nuevaPalabra, i) = Letra(palabraAncla.palabra, j)
    /\ \/ palabraAncla.orientacion = "horizontal" /\ nuevaOrientacion = "vertical"
       \/ palabraAncla.orientacion = "vertical" /\ nuevaOrientacion = "horizontal"
    /\ comprobarEspacio(g, nuevaPalabra, NuevoX(palabraAncla, i, j),
                        NuevoY(palabraAncla, i, j), nuevaOrientacion, i)

\* BuscarJ that keeps the last j whose pair is valid
BuscarJUltimo(g, palabraAncla, nuevaPalabra, nuevaOrientacion, i) ==
    LET js == {j \in 0..(Len(palabraAncla.palabra) - 1) :
                  ParValido(g, palabraAncla, nuevaPalabra, nuevaOrientacion, i, j)}
    IN  IF js = {} THEN <<>>
        ELSE LET j == CHOOSE k \in js : \A m \in js : k >= m
             IN  <<NuevoX(palabraAncla, i, j), NuevoY(palabraAncla, i, j), i, j>>

\* the inner loop over j for one i: it returns at the first j whose pair is
\* valid; <<>> when it ends without a return, else <<nuevoX, nuevoY, i, j>>
BuscarJ(g, palabraAncla, nuevaPalabra, nuevaOrientacion, i) ==
    LET js == {j \in 0..(Len(palabraAncla.palabra) - 1) :
                  ParValido(g, palabraAncla, nuevaPalabra, nuevaOrientacion, i, j)}
    IN  IF js = {} THEN <<>>
        ELSE LET j == CHOOSE k \in js : \A m \in js : k <= m
             IN  <<NuevoX(palabraAncla, i, j), NuevoY(palabraAncla, i, j), i, j>>

\* the outer loop over i from i on; <<>> is the final `return null`
RECURSIVE BuscarI(_, _, _, _, _)
BuscarI(g, palabraAncla, nuevaPalabra, nuevaOrientacion, i) ==
    IF ~(i < Len(nuevaPalabra)) THEN <<>>
    ELSE LET r == BuscarJ(g, palabraAncla, nuevaPalabra, nuevaOrientacion, i)
         IN  IF r # <<>> THEN r
             ELSE BuscarI(g, palabraAncla, nuevaPalabra, nuevaOrientacion, i + 1)

encontrarInterseccion(g, palabraAncla, nuevaPalabra, nuevaOrientacion) ==
    BuscarI(g, palabraAncla, nuevaPalabra, nuevaOrientacion, 0)

(* ------------------------------- inputs -------------------------------- *)

gato == <<"g","a","t","o">>

Sol == <<"S","o","l">>

bien == <<"b","i","e","n">>

departamento == <<"d","e","p","a","r","t","a","m","e","n","t","o">>

electroencefalografista ==
    <<"e","l","e","c","t","r","o","e","n","c","e","f","a","l","o","g","r","a",
      "f","i","s","t","a">>

\* the word texts ("Unidad Léxica (Español)") a pool handed to
\* generarCrucigrama is drawn from
PALABRAS == {gato, Sol, bien, departamento, electroencefalografista}

\* the sequences of n distinct elements of S
RECURSIVE SeqsDistintas(_, _)
SeqsDistintas(S, n) ==
    IF n = 0 THEN {<<>>}
    ELSE UNION {{Append(s, w) : w \in {v \in S : \A k \in 1..Len(s) : s[k] # v}}
                : s \in SeqsDistintas(S, n - 1)}

\* the words of PALABRAS that obtenerPalabrasPorUnidades lets through: length
\* 3 to 12 (line 253)
PALABRAS_ELEGIBLES == {w \in PALABRAS : Len(w) >= 3 /\ Len(w) <= 12}

\* a pool of words of S after
\* [...palabrasDisponibles].sort(() => Math.random() - 0.5): the comparator is
\* inconsistent, so the result is some permutation of the pool
Mezclas(S, max) == UNION {SeqsDistintas(S, n) : n \in 1..max}

Targets == (1..MaxTarget) \cup {NUM_PALABRAS}

(* -------------------------------- state -------------------------------- *)

VARIABLES
    pc,                      \* position in generarCrucigrama: idle, loop, fin
    retorno,                 \* last return of generarCrucigrama: none, null, puzzle
    numPalabras,             \* parameter numPalabras
    palabrasMezcladas,       \* local palabrasMezcladas
    grid,                    \* local grid
    palabrasColocadas,       \* local palabrasColocadas
    palabrasUsadas,          \* local palabrasUsadas
    palabrasColocadasCount,  \* local palabrasColocadasCount
    intentos,                \* local intentos
    carga,                   \* fetch of palabras.json: pendiente, cargado, fallido
    baseDeDatosPalabras,     \* global baseDeDatosPalabras
    unidadesSeleccionadas,   \* global unidadesSeleccionadas
    crucigramaActual,        \* global crucigramaActual: <<>> is null
    alerta,                  \* text of the alert() that is open, "" when none
    oyentes,                 \* number of input listeners on #grid-container
    ce,                      \* a call of comprobarEspacio: arguments and result
    num,                     \* a run of the numbering pass: the list and its numbers
    fil,                     \* a call of obtenerPalabrasPorUnidades: argument and result
    ei                       \* a call of encontrarInterseccion: arguments and result

builderVars ==
    <<pc, retorno, numPalabras, palabrasMezcladas, grid, palabrasColocadas,
      palabrasUsadas, palabrasColocadasCount, intentos>>

appVars ==
    <<carga, baseDeDatosPalabras, unidadesSeleccionadas, crucigramaActual, alerta,
      oyentes>>

\* what a step of generarCrucigrama leaves alone
resto == <<appVars, ce, num, fil, ei>>

vars == <<builderVars, appVars, ce, num, fil, ei>>

(* --------------------------- generarCrucigrama ------------------------- *)

\* Math.floor((GRID_SIZE - palabraUpper.length) / 2)
StartX(palabraUpper) == (GRID_SIZE - Len(palabraUpper)) \div 2

\* Math.floor(GRID_SIZE / 2)
StartY == GRID_SIZE \div 2

\* the object pushed to palabrasColocadas (the clue `pista` is display text
\* and is left out)
Colocada(palabra, x, y, orientacion) ==
    [palabra |-> palabra, x |-> x, y |-> y, orientacion |-> orientacion]

\* MarcarUsada that forgets to add the key
MarcarUsadaOlvidado(usadas, palabraOriginal) == usadas

\* palabrasUsadas.add(key)
MarcarUsada(usadas, palabraOriginal) == usadas \cup {toLowerCase(palabraOriginal)}

\* PrimeraNoUsada that takes the last unused candidate of the shuffled pool
UltimaNoUsada(mezcladas, usadas) ==
    LET libres == {k \in 1..Len(mezcladas) : toLowerCase(mezcladas[k]) \notin usadas}
    IN  IF libres = {} THEN 0
        ELSE CHOOSE k \in libres : \A m \in libres : k >= m

\* 1-based position of the first candidate of the shuffled pool whose key is
\* not in palabrasUsadas, 0 when the for loop ends with nuevaPalabraObj null
PrimeraNoUsada(mezcladas, usadas) ==
    LET libres == {k \in 1..Len(mezcladas) : toLowerCase(mezcladas[k]) \notin usadas}
    IN  IF libres = {} THEN 0
        ELSE CHOOSE k \in libres : \A m \in libres : k <= m

\* CondicionBucle without the retry budget
CondicionBucleSinLimite(count, n, i) == count < n

\* the while condition
CondicionBucle(count, n, i) == count < n /\ i < MAX_INTENTOS

\* nuevaOrientacion
Perpendicular(orientacion) ==
    IF orientacion = "horizontal" THEN "vertical" ELSE "horizontal"

\* generarCrucigrama up to the while loop, for a non-empty pool whose shuffle
\* gave `mezcladas`
Empezar(mezcladas, n) ==
    LET palabraUpper == toUpperCase(mezcladas[1])
        startX == StartX(palabraUpper)
    IN  /\ numPalabras' = n
        /\ palabrasMezcladas' = mezcladas
        /\ grid' = colocarPalabra(NuevoGrid(GRID_SIZE), palabraUpper, startX,
                                  StartY, "horizontal")
        /\ palabrasColocadas' = <<Colocada(palabraUpper, startX, StartY, "horizontal")>>
        /\ palabrasUsadas' = MarcarUsada({}, mezcladas[1])
        /\ palabrasColocadasCount' = 1
        /\ intentos' = 0
        /\ pc' = "loop"
        /\ retorno' = "none"

\* generarCrucigrama with an empty pool: alert and return null
RechazarVacio(n) ==
    /\ numPalabras' = n
    /\ palabrasMezcladas' = <<>>
    /\ grid' = NoGrid
    /\ palabrasColocadas' = <<>>
    /\ palabrasUsadas' = {}
    /\ palabrasColocadasCount' = 0
    /\ intentos' = 0
    /\ pc' = "idle"
    /\ retorno' = "null"
    /\ alerta' = ALERTA_VACIO

\* a direct call generarCrucigrama([], n)
GenerarVacio ==
    /\ pc = "idle"
    /\ retorno = "none"
    /\ alerta = ""
    /\ \E n \in Targets : RechazarVacio(n)
    /\ UNCHANGED <<carga, baseDeDatosPalabras, unidadesSeleccionadas,
                   crucigramaActual, oyentes, ce, num, fil, ei>>

\* a direct call generarCrucigrama(pool, n) with a non-empty pool of at most
\* max words of S
GenerarDe(S, max) ==
    /\ pc = "idle"
    /\ retorno = "none"
    /\ \E mezcladas \in Mezclas(S, max), n \in Targets : Empezar(mezcladas, n)
    /\ UNCHANGED resto

Generar == GenerarDe(PALABRAS, MaxPool)

\* the same with a pool as the word filter delivers it
GenerarElegibles == GenerarDe(PALABRAS_ELEGIBLES, MaxPool)

\* the same with the smaller pools of SpecJusta
GenerarJusta == GenerarDe(PALABRAS, MaxPoolJusta)

\* one iteration that ends at `break`: no unused candidate
IntentoSinCandidata ==
    /\ pc = "loop"
    /\ CondicionBucle(palabrasColocadasCount, numPalabras, intentos)
    /\ PrimeraNoUsada(palabrasMezcladas, palabrasUsadas) = 0
    /\ intentos' = intentos + 1
    /\ pc' = "fin"
    /\ UNCHANGED <<retorno, numPalabras, palabrasMezcladas, grid, palabrasColocadas,
                   palabrasUsadas, palabrasColocadasCount>>
    /\ UNCHANGED resto

\* Intento in which a failed search marks the candidate as used
IntentoConsume(anclaIndex) ==
    /\ pc = "loop"
    /\ CondicionBucle(palabrasColocadasCount, numPalabras, intentos)
    /\ PrimeraNoUsada(palabrasMezcladas, palabrasUsadas) # 0
    /\ \E palabraAncla \in {palabrasColocadas[anclaIndex]} :
       \E nuevaPalabraObj \in
              {palabrasMezcladas[PrimeraNoUsada(palabrasMezcladas, palabrasUsadas)]} :
       \E nuevaPalabra \in {toUpperCase(nuevaPalabraObj)} :
       \E nuevaOrientacion \in {Perpendicular(palabraAncla.orientacion)} :
       \E interseccion \in {encontrarInterseccion(grid, palabraAncla, nuevaPalabra,
                                                  nuevaOrientacion)} :
           IF interseccion # <<>>
           THEN /\ grid' = colocarPalabra(grid, nuevaPalabra, interseccion[1],
                                          interseccion[2], nuevaOrientacion)
                /\ palabrasColocadas' =
                       Append(palabrasColocadas,
                              Colocada(nuevaPalabra, interseccion[1],
                                       interseccion[2], nuevaOrientacion))
                /\ palabrasUsadas' = MarcarUsada(palabrasUsadas, nuevaPalabraObj)
                /\ palabrasColocadasCount' = palabrasColocadasCount + 1
                /\ intentos' = 0
           ELSE /\ intentos' = intentos + 1
                /\ palabrasUsadas' = MarcarUsada(palabrasUsadas, nuevaPalabraObj)
                /\ UNCHANGED <<grid, palabrasColocadas, palabrasColocadasCount>>
    /\ UNCHANGED <<pc, retorno, numPalabras, palabrasMezcladas>>
    /\ UNCHANGED resto

\* one iteration with anchor index anclaIndex (1-based here); the locals of
\* the iteration are bound with \E over one-element sets
Intento(anclaIndex) ==
    /\ pc = "loop"
    /\ CondicionBucle(palabrasColocadasCount, numPalabras, intentos)
    /\ PrimeraNoUsada(palabrasMezcladas, palabrasUsadas) # 0
    /\ \E palabraAncla \in {palabrasColocadas[anclaIndex]} :
       \E nuevaPalabraObj \in
              {palabrasMezcladas[PrimeraNoUsada(palabrasMezcladas, palabrasUsadas)]} :
       \E nuevaPalabra \in {toUpperCase(nuevaPalabraObj)} :
       \E nuevaOrientacion \in {Perpendicular(palabraAncla.orientacion)} :
       \E interseccion \in {encontrarInterseccion(grid, palabraAncla, nuevaPalabra,
                                                  nuevaOrientacion)} :
           IF interseccion # <<>>
           THEN /\ grid' = colocarPalabra(grid, nuevaPalabra, interseccion[1],
                                          interseccion[2], nuevaOrientacion)
                /\ palabrasColocadas' =
                       Append(palabrasColocadas,
                              Colocada(nuevaPalabra, interseccion[1],
                                       interseccion[2], nuevaOrientacion))
                /\ palabrasUsadas' = MarcarUsada(palabrasUsadas, nuevaPalabraObj)
                /\ palabrasColocadasCount' = palabrasColocadasCount + 1
                /\ intentos' = 0
           ELSE /\ intentos' = intentos + 1
                /\ UNCHANGED <<grid, palabrasColocadas, palabrasUsadas,
                               palabrasColocadasCount>>
    /\ UNCHANGED <<pc, retorno, numPalabras, palabrasMezcladas>>
    /\ UNCHANGED resto

\* Math.random() picks any index of palabrasColocadas
IntentoConAncla == \E anclaIndex \in 1..Len(palabrasColocadas) : Intento(anclaIndex)

\* the while condition is false: leave the loop
SalirBucle ==
    /\ pc = "loop"
    /\ ~CondicionBucle(palabrasColocadasCount, numPalabras, intentos)
    /\ pc' = "fin"
    /\ UNCHANGED <<retorno, numPalabras, palabrasMezcladas, grid, palabrasColocadas,
                   palabrasUsadas, palabrasColocadasCount, intentos>>
    /\ UNCHANGED resto

\* return { grid, palabrasColocadas } to a direct caller
Retornar ==
    /\ pc = "fin"
    /\ pc' = "idle"
    /\ retorno' = "puzzle"
    /\ UNCHANGED <<numPalabras, palabrasMezcladas, grid, palabrasColocadas,
                   palabrasUsadas, palabrasColocadasCount, intentos>>
    /\ UNCHANGED resto

\* the direct caller drops what generarCrucigrama returned, the alert
\* closed: nothing of a call outlives it (every local is created anew by the
\* next call)
Descartar ==
    /\ pc = "idle"
    /\ retorno # "none"
    /\ retorno' = "none"
    /\ numPalabras' = 0
    /\ palabrasMezcladas' = <<>>
    /\ grid' = NoGrid
    /\ palabrasColocadas' = <<>>
    /\ palabrasUsadas' = {}
    /\ palabrasColocadasCount' = 0
    /\ intentos' = 0
    /\ alerta' = ""
    /\ UNCHANGED <<pc, carga, baseDeDatosPalabras, unidadesSeleccionadas,
                   crucigramaActual, oyentes, ce, num, fil, ei>>

\* no call of generarCrucigrama has started
SinLlamada ==
    /\ pc = "idle"
    /\ retorno = "none"
    /\ numPalabras = 0
    /\ palabrasMezcladas = <<>>
    /\ grid = NoGrid
    /\ palabrasColocadas = <<>>
    /\ palabrasUsadas = {}
    /\ palabrasColocadasCount = 0
    /\ intentos = 0

\* the globals as the script sets them when it loads
PaginaCargada ==
    /\ carga = "pendiente"
    /\ baseDeDatosPalabras = <<>>
    /\ unidadesSeleccionadas = {"U5"}
    /\ crucigramaActual = <<>>
    /\ alerta = ""
    /\ oyentes = 0

\* no call of comprobarEspacio is under test
SinPrueba ==
    ce = [g |-> NoGrid, palabra |-> <<>>, x |-> 0, y |-> 0,
          orientacion |-> "horizontal", indiceInterseccion |-> -1,
          evaluado |-> FALSE, resultado |-> FALSE]

\* no run of the numbering pass is under test
SinNumerar == num = [lista |-> <<>>, numeros |-> <<>>, hecho |-> FALSE]

\* no call of the word filter is under test
SinFiltrar == fil = [idsUnidades |-> {}, hecho |-> FALSE, resultado |-> <<>>]

\* no call of encontrarInterseccion is under test
SinBuscar ==
    ei = [g |-> NoGrid,
          palabraAncla |-> [palabra |-> <<>>, x |-> 0, y |-> 0,
                            orientacion |-> "horizontal"],
          nuevaPalabra |-> <<>>, nuevaOrientacion |-> "vertical",
          hecho |-> FALSE, interseccion |-> <<>>]

Init ==
    SinLlamada /\ PaginaCargada /\ SinPrueba /\ SinNumerar /\ SinFiltrar /\ SinBuscar

\* generarCrucigrama called directly, any pool and target
Next ==
    \/ GenerarVacio
    \/ Generar
    \/ IntentoSinCandidata
    \/ IntentoConAncla
    \/ SalirBucle
    \/ Retornar
    \/ Descartar

Spec == Init /\ [][Next]_vars

\* the statements of generarCrucigrama run one after the other without
\* waiting for anything: a call that has started keeps taking its steps
PasoDeLlamada == IntentoSinCandidata \/ IntentoConAncla \/ SalirBucle \/ Retornar

NextJusta ==
    \/ GenerarVacio
    \/ GenerarJusta
    \/ IntentoSinCandidata
    \/ IntentoConAncla
    \/ SalirBucle
    \/ Retornar
    \/ Descartar

SpecJusta == Init /\ [][NextJusta]_vars /\ WF_vars(PasoDeLlamada)

\* generarCrucigrama called directly with pools of eligible words only
NextElegibles ==
    \/ GenerarVacio
    \/ GenerarElegibles
    \/ IntentoSinCandidata
    \/ IntentoConAncla
    \/ SalirBucle
    \/ Retornar
    \/ Descartar

SpecElegibles == Init /\ [][NextElegibles]_vars

(* ---------------------- properties of the builder ---------------------- *)

Min(a, b) == IF a <= b THEN a ELSE b

\* the cell of letter i of a placed word
CeldaDe(w, i) == <<w.x + Dx(w.orientacion) * i, w.y + Dy(w.orientacion) * i>>

Indices(w) == 0..(Len(w.palabra) - 1)

\* the cells of the grid a placed word occupies
CeldasEnGrid(w) ==
    {CeldaDe(w, i) : i \in {k \in Indices(w) :
                               esValido(grid, CeldaDe(w, k)[1], CeldaDe(w, k)[2])}}

Adyacentes(c, d) ==
    \/ c[1] = d[1] /\ (c[2] = d[2] + 1 \/ d[2] = c[2] + 1)
    \/ c[2] = d[2] /\ (c[1] = d[1] + 1 \/ d[1] = c[1] + 1)

\* generarCrucigrama has returned a puzzle
Devuelto == pc = "idle" /\ retorno = "puzzle"

\* C1: every placed word of a returned puzzle reads back from the grid: the
\* cell at origin + i steps along its orientation holds letter i of the word.
C1_LeeIgual ==
    Devuelto =>
        \A k \in 1..Len(palabrasColocadas) :
            LET w == palabrasColocadas[k]
            IN  \A i \in Indices(w) :
                    obtenerCelda(grid, CeldaDe(w, i)[1], CeldaDe(w, i)[2])
                        = Letra(w.palabra, i)

\* C2: every placed word but the first shares a grid cell with another placed
\* word, and the two words have the same letter there.
C2_Cruce ==
    \A k \in 2..Len(palabrasColocadas) :
        \E m \in 1..Len(palabrasColocadas) :
            /\ m # k
            /\ \E i \in Indices(palabrasColocadas[k]), j \in Indices(palabrasColocadas[m]) :
                   /\ CeldaDe(palabrasColocadas[k], i) = CeldaDe(palabrasColocadas[m], j)
                   /\ esValido(grid, CeldaDe(palabrasColocadas[k], i)[1],
                               CeldaDe(palabrasColocadas[k], i)[2])
                   /\ Letra(palabrasColocadas[k].palabra, i)
                          = Letra(palabrasColocadas[m].palabra, j)

\* a returned puzzle in which a word after the first has been placed
C2_Testigo == Devuelto /\ Len(palabrasColocadas) >= 2

\* C3: in a returned puzzle, when a cell of one placed word is directly next to
\* a cell of another placed word of the same orientation, both cells lie on one
\* placed word of the other orientation (they are cells of a crossing).
C3_SinParalelasPegadas ==
    Devuelto =>
        \A a, b \in 1..Len(palabrasColocadas) :
            (a # b /\ palabrasColocadas[a].orientacion = palabrasColocadas[b].orientacion) =>
                \A c \in CeldasEnGrid(palabrasColocadas[a]),
                   d \in CeldasEnGrid(palabrasColocadas[b]) :
                    Adyacentes(c, d) =>
                        \E v \in 1..Len(palabrasColocadas) :
                            /\ palabrasColocadas[v].orientacion
                                   # palabrasColocadas[a].orientacion
                            /\ c \in CeldasEnGrid(palabrasColocadas[v])
                            /\ d \in CeldasEnGrid(palabrasColocadas[v])

\* a returned puzzle with two placed words of the same orientation
C3_Testigo ==
    /\ Devuelto
    /\ \E a, b \in 1..Len(palabrasColocadas) :
           a # b /\ palabrasColocadas[a].orientacion = palabrasColocadas[b].orientacion

\* C4: a word longer than the grid is rejected and never written to the grid:
\* no placed word is longer than GRID_SIZE.
C4_SinTruncar ==
    \A k \in 1..Len(palabrasColocadas) :
        Len(palabrasColocadas[k].palabra) <= GRID_SIZE

\* C7: for a non-empty pool of k distinct words and a target T >= 1 the call
\* never returns null, and the placed words are at least 1, at most min(T, k)
\* and pairwise different.
C7_Resultado ==
    /\ retorno = "null" => Len(palabrasMezcladas) = 0
    /\ (pc \in {"loop", "fin"} \/ retorno = "puzzle") =>
           /\ Len(palabrasColocadas) >= 1
           /\ Len(palabrasColocadas) <= Min(numPalabras, Len(palabrasMezcladas))
           /\ palabrasColocadasCount = Len(palabrasColocadas)
           /\ \A a, b \in 1..Len(palabrasColocadas) :
                  a # b => palabrasColocadas[a].palabra # palabrasColocadas[b].palabra
           /\ \A a \in 1..Len(palabrasColocadas) :
                  \E m \in 1..Len(palabrasMezcladas) :
                      palabrasColocadas[a].palabra = toUpperCase(palabrasMezcladas[m])

\* a 1-word pool with target 10 has returned a puzzle of exactly 1 word
C7_Testigo ==
    /\ Devuelto
    /\ Len(palabrasMezcladas) = 1
    /\ numPalabras = NUM_PALABRAS
    /\ Len(palabrasColocadas) = 1

\* one of the three reasons to stop holds at the head of the loop
DebeParar ==
    \/ palabrasColocadasCount >= numPalabras
    \/ intentos >= MAX_INTENTOS
    \/ PrimeraNoUsada(palabrasMezcladas, palabrasUsadas) = 0

CeldasPrueba == (0..(TamPrueba - 1)) \X (0..(TamPrueba - 1))

\* a grid of side TamPrueba whose cells in `ocupadas` hold "A"
GridCon(ocupadas) ==
    [size |-> TamPrueba,
     cells |-> [y \in 0..(TamPrueba - 1) |->
                   [x \in 0..(TamPrueba - 1) |->
                       IF <<x, y>> \in ocupadas THEN "A" ELSE NULL]]]

GridsPrueba ==
    {GridCon(o) : o \in {c \in SUBSET CeldasPrueba : Cardinality(c) <= MaxOcupadas}}

PalabrasPrueba == {<<"A", "B">>, <<"B", "A", "A">>}

\* start coordinates: one step outside the grid on the low side, and inside
CoordsPrueba == (-1)..(TamPrueba - 1)

\* intersection indices: the default -1 and the first indices of the word
IndicesPrueba == (-1)..1

InitCE ==
    /\ SinLlamada
    /\ PaginaCargada
    /\ SinNumerar
    /\ SinFiltrar
    /\ SinBuscar
    /\ \E g \in GridsPrueba, palabra \in PalabrasPrueba, x \in CoordsPrueba,
          y \in CoordsPrueba, orientacion \in {"horizontal", "vertical"},
          indiceInterseccion \in IndicesPrueba :
          ce = [g |-> g, palabra |-> palabra, x |-> x, y |-> y,
                orientacion |-> orientacion,
                indiceInterseccion |-> indiceInterseccion,
                evaluado |-> FALSE, resultado |-> FALSE]

\* the call comprobarEspacio(g, palabra, x, y, orientacion, indiceInterseccion)
Comprobar ==
    /\ ~ce.evaluado
    /\ ce.g.size > 0
    /\ ce' = [ce EXCEPT !.evaluado = TRUE,
                        !.resultado = comprobarEspacio(ce.g, ce.palabra, ce.x, ce.y,
                                                       ce.orientacion,
                                                       ce.indiceInterseccion)]
    /\ UNCHANGED <<builderVars, appVars, num, fil, ei>>

NextCE == Comprobar

SpecCE == InitCE /\ [][NextCE]_vars

\* a cell of g that is inside the grid and holds a letter
Ocupada(g, c) ==
    /\ c[1] \in 0..(g.size - 1)
    /\ c[2] \in 0..(g.size - 1)
    /\ g.cells[c[2]][c[1]] # NULL

\* the target cell of letter i
Destino(x, y, orientacion, i) ==
    IF orientacion = "horizontal" THEN <<x + i, y>> ELSE <<x, y + i>>

\* the two cells beside c, across the word's direction
Laterales(c, orientacion) ==
    IF orientacion = "horizontal"
    THEN {<<c[1], c[2] - 1>>, <<c[1], c[2] + 1>>}
    ELSE {<<c[1] - 1, c[2]>>, <<c[1] + 1, c[2]>>}

\* the four checks of the validator, stated on the cells
CuatroComprobaciones(g, palabra, x, y, orientacion, indiceInterseccion) ==
    LET n == Len(palabra)
        fin == Destino(x, y, orientacion, n - 1)
    IN  /\ fin[1] \in 0..(g.size - 1) /\ fin[2] \in 0..(g.size - 1)
        /\ \A i \in 0..(n - 1) :
               Ocupada(g, Destino(x, y, orientacion, i)) =>
                   /\ i = indiceInterseccion
                   /\ g.cells[Destino(x, y, orientacion, i)[2]]
                             [Destino(x, y, orientacion, i)[1]] = palabra[i + 1]
        /\ \A i \in 0..(n - 1) :
               ~Ocupada(g, Destino(x, y, orientacion, i)) =>
                   \A c \in Laterales(Destino(x, y, orientacion, i), orientacion) :
                       ~Ocupada(g, c)
        /\ ~Ocupada(g, Destino(x, y, orientacion, -1))
        /\ ~Ocupada(g, Destino(x, y, orientacion, n))

\* C5: comprobarEspacio returns true exactly when the four checks hold: the
\* final cell is in bounds; every occupied target cell is at the intersection
\* index and holds the word's letter; every empty target cell has both side
\* cells empty; the cells before the start and after the end are empty or
\* outside the grid.  With index -1 an occupied target cell rejects.
C5_CuatroComprobaciones ==
    ce.evaluado =>
        /\ ce.resultado = CuatroComprobaciones(ce.g, ce.palabra, ce.x, ce.y,
                                               ce.orientacion, ce.indiceInterseccion)
        /\ (/\ ce.indiceInterseccion = -1
            /\ \E i \in 0..(Len(ce.palabra) - 1) :
                   Ocupada(ce.g, Destino(ce.x, ce.y, ce.orientacion, i)))
               => ~ce.resultado

\* a call that returned true for a word that crosses a letter of the grid at
\* its intersection index
C5_Testigo ==
    /\ ce.evaluado
    /\ ce.resultado
    /\ ce.indiceInterseccion >= 0
    /\ Ocupada(ce.g, Destino(ce.x, ce.y, ce.orientacion, ce.indiceInterseccion))

(* ------------------- the numbering pass of dibujarGrid ------------------ *)

DIGITOS == <<"0","1","2","3","4","5","6","7","8","9">>

RECURSIVE StrNat(_)
\* the decimal digits of a natural number
StrNat(n) ==
    IF n < 10 THEN <<DIGITOS[n + 1]>>
    ELSE StrNat(n \div 10) \o <<DIGITOS[(n % 10) + 1]>>

\* `${n}` for an integer n
Str(n) == IF n < 0 THEN <<"-">> \o StrNat(-n) ELSE StrNat(n)

\* const key = `${palabra.x},${palabra.y}`
Clave(palabra) == Str(palabra.x) \o <<",">> \o Str(palabra.y)

\* Comparar with the two coordinates exchanged
CompararXY(a, b) == IF a.x # b.x THEN a.x - b.x ELSE a.y - b.y

\* the comparator of the sort (lines 539-542)
Comparar(a, b) == IF a.y # b.y THEN a.y - b.y ELSE a.x - b.x

RECURSIVE OrdenDesde(_, _, _)
\* Array.prototype.sort is stable: the indices of lista, element k inserted
\* behind every element already there that does not compare greater
OrdenDesde(lista, orden, k) ==
    IF k > Len(lista) THEN orden
    ELSE LET antes == Cardinality({e \in 1..Len(orden) :
                                      Comparar(lista[orden[e]], lista[k]) <= 0})
         IN  OrdenDesde(lista,
                        SubSeq(orden, 1, antes) \o <<k>>
                            \o SubSeq(orden, antes + 1, Len(orden)),
                        k + 1)

\* palabrasOrdenadas, as indices into palabrasColocadas
palabrasOrdenadas(lista) == OrdenDesde(lista, <<>>, 1)

RECURSIVE AsignarDesde(_, _, _, _, _, _)
\* the forEach of lines 544-553 from position k of the sorted list on;
\* numerosMap is a set of <<key, number>> pairs
AsignarDesde(lista, orden, k, numerosMap, numeroActual, numeros) ==
    IF k > Len(orden) THEN numeros
    ELSE LET key == Clave(lista[orden[k]])
         IN  IF ~(\E e \in numerosMap : e[1] = key)
             THEN AsignarDesde(lista, orden, k + 1,
                               numerosMap \cup {<<key, numeroActual>>},
                               numeroActual + 1,
                               [numeros EXCEPT ![orden[k]] = numeroActual])
             ELSE AsignarDesde(lista, orden, k + 1, numerosMap, numeroActual,
                               [numeros EXCEPT ![orden[k]] =
                                   (CHOOSE e \in numerosMap : e[1] = key)[2]])

\* palabra.numero of every element of palabrasColocadas after the pass
NumerosDe(lista) ==
    AsignarDesde(lista, palabrasOrdenadas(lista), 1, {}, 1,
                 [k \in 1..Len(lista) |-> 0])

\* start coordinates: outside the grid on the low side, one digit, two digits
ColumnasNum == {-1, 2, 11}

FilasNum == {-1, 11}

InicioNum ==
    [x : ColumnasNum, y : FilasNum, orientacion : {"horizontal", "vertical"}]

RECURSIVE Listas(_, _)
\* the sequences of length n over S
Listas(S, n) ==
    IF n = 0 THEN {<<>>} ELSE {<<e>> \o l : e \in S, l \in Listas(S, n - 1)}

InitNum ==
    /\ SinLlamada
    /\ PaginaCargada
    /\ SinPrueba
    /\ SinFiltrar
    /\ SinBuscar
    /\ \E n \in 1..MaxNumeradas : \E lista \in Listas(InicioNum, n) :
          num = [lista |-> lista, numeros |-> [k \in 1..n |-> 0], hecho |-> FALSE]

\* the numbering pass on num.lista
Numerar ==
    /\ ~num.hecho
    /\ Len(num.lista) > 0
    /\ num' = [num EXCEPT !.numeros = NumerosDe(num.lista), !.hecho = TRUE]
    /\ UNCHANGED <<builderVars, appVars, ce, fil, ei>>

NextNum == Numerar

SpecNum == InitNum /\ [][NextNum]_vars

\* (row, column) of start cell c is before that of start cell d
AntesDe(c, d) == c.y < d.y \/ (c.y = d.y /\ c.x < d.x)

\* the distinct start cells of a list
Inicios(lista) == {[x |-> lista[k].x, y |-> lista[k].y] : k \in 1..Len(lista)}

\* 1-based rank of the start cell of w among the distinct start cells
Rango(lista, w) == 1 + Cardinality({c \in Inicios(lista) : AntesDe(c, w)})

\* the list with its elements in the order given by the permutation f
Reordenada(lista, f) == [k \in 1..Len(lista) |-> lista[f[k]]]

\* C10: the numbering pass gives every placed word the 1-based rank of its
\* start cell among the distinct start cells by row then column; words with
\* the same start cell get the same number; the numbers used are exactly 1..d
\* for d distinct start cells; every ordering of the list gives every word
\* the same number.
C10_Numeracion ==
    num.hecho =>
        LET lista == num.lista
            n == Len(lista)
        IN  /\ \A k \in 1..n : num.numeros[k] = Rango(lista, lista[k])
            /\ \A k, m \in 1..n :
                   (lista[k].x = lista[m].x /\ lista[k].y = lista[m].y)
                       => num.numeros[k] = num.numeros[m]
            /\ {num.numeros[k] : k \in 1..n} = 1..Cardinality(Inicios(lista))
            /\ \A f \in Permutations(1..n) : \A k \in 1..n :
                   NumerosDe(Reordenada(lista, f))[k] = num.numeros[f[k]]

\* a numbered list in which two words share a start cell, a third starts
\* elsewhere, and the list is not in (row, column) order
C10_Testigo ==
    /\ num.hecho
    /\ Len(num.lista) >= 3
    /\ Cardinality(Inicios(num.lista)) = 2
    /\ \E k \in 1..(Len(num.lista) - 1) :
           AntesDe(num.lista[k + 1], num.lista[k])

(* ------------------------------- the page ------------------------------ *)

\* prefijos of the units U0..U9
PrefijoLibro1(d) == <<"U", d, " ", "#">>

\* prefijos of the units of Aula 2
PrefijoLibro2(d) == <<"A", "u", "l", "a", " ", "2", " ", "U", d, " ", "#">>

\* PREFIJOS_POR_UNIDAD.get(id) || []
PREFIJOS_POR_UNIDAD(id) ==
    CASE id = "U0" -> {PrefijoLibro1("0")}
      [] id = "U1" -> {PrefijoLibro1("1")}
      [] id = "U2" -> {PrefijoLibro1("2")}
      [] id = "U3" -> {PrefijoLibro1("3")}
      [] id = "U4" -> {PrefijoLibro1("4")}
      [] id = "U5" -> {PrefijoLibro1("5")}
      [] id = "U6" -> {PrefijoLibro1("6")}
      [] id = "U7" -> {PrefijoLibro1("7")}
      [] id = "U8" -> {PrefijoLibro1("8")}
      [] id = "U9" -> {PrefijoLibro1("9")}
      [] id = "A2U1" -> {PrefijoLibro2("1")}
      [] id = "A2U2" -> {PrefijoLibro2("2")}
      [] id = "A2U4" -> {PrefijoLibro2("4")}
      [] OTHER -> {}

\* String.prototype.startsWith
startsWith(s, prefijo) ==
    Len(s) >= Len(prefijo) /\ SubSeq(s, 1, Len(prefijo)) = prefijo

\* the white space characters of the model: space and tab
BLANCOS == {" ", "\t"}

\* String.prototype.trim
trim(s) ==
    LET letras == {k \in 1..Len(s) : s[k] \notin BLANCOS}
    IN  IF letras = {} THEN <<>>
        ELSE SubSeq(s, CHOOSE k \in letras : \A m \in letras : k <= m,
                       CHOOSE k \in letras : \A m \in letras : k >= m)

\* idsUnidades.some(id => prefijos.some(prefijo => lugar.startsWith(prefijo)))
perteneceUnidad(lugar, idsUnidades) ==
    \E id \in idsUnidades : \E prefijo \in PREFIJOS_POR_UNIDAD(id) :
        startsWith(lugar, prefijo)

\* the item passes every `return` of the forEach callback before the map
\* (a missing field is the empty string)
Jugable(item, idsUnidades) ==
    LET palabraOriginal == trim(item.palabra)
    IN  /\ item.lugar # <<>>
        /\ perteneceUnidad(item.lugar, idsUnidades)
        /\ palabraOriginal # <<>>
        /\ \A k \in 1..Len(palabraOriginal) : palabraOriginal[k] # " "
        /\ ~(Len(palabraOriginal) < 3 \/ Len(palabraOriginal) > 12)
        /\ ~(palabraOriginal = toUpperCase(palabraOriginal) /\ Len(palabraOriginal) > 1)

RECURSIVE FiltrarDesde(_, _, _, _, _)
\* the forEach from item k on; palabrasUnicas is kept as its keys and its
\* values in insertion order
FiltrarDesde(base, idsUnidades, k, claves, unicas) ==
    IF k > Len(base) THEN unicas
    ELSE LET clave == toLowerCase(trim(base[k].palabra))
         IN  IF Jugable(base[k], idsUnidades) /\ clave \notin claves
             THEN FiltrarDesde(base, idsUnidades, k + 1, claves \cup {clave},
                               Append(unicas, base[k]))
             ELSE FiltrarDesde(base, idsUnidades, k + 1, claves, unicas)

\* obtenerPalabrasPorUnidades(idsUnidades); idsUnidades is a set here
obtenerPalabrasPorUnidades(idsUnidades) ==
    IF idsUnidades = {} THEN <<>>
    ELSE FiltrarDesde(baseDeDatosPalabras, idsUnidades, 1, {}, <<>>)

\* item["Unidad Léxica (Español)"] of every item, what generarCrucigrama reads
UnidadLexica(items) == [k \in 1..Len(items) |-> items[k].palabra] \o <<>>

\* a palabras.json: U5 has gato and Sol (and Gato again), U0 has nothing
\* playable, Aula 2 U1 has bien, one entry has no place in the book
VOCABULARIO ==
    << [lugar |-> <<"U","5"," ","#","1">>, palabra |-> gato],
       [lugar |-> <<"U","5"," ","#","2">>, palabra |-> Sol],
       [lugar |-> <<"U","5"," ","#","3">>, palabra |-> <<"G","a","t","o">>],
       [lugar |-> <<"U","0"," ","#","1">>, palabra |-> <<"e","l"," ","g","a","t","o">>],
       [lugar |-> <<"U","0"," ","#","2">>, palabra |-> <<"O","N","G">>],
       [lugar |-> <<"A","u","l","a"," ","2"," ","U","1"," ","#","7">>, palabra |-> bien],
       [lugar |-> <<>>, palabra |-> <<"t","o","s">>] >>

\* what response.json() can deliver
Vocabularios == {VOCABULARIO, <<>>}

\* what obtenerUnidadesMarcadas() can deliver
Selecciones == {{}, {"U0"}, {"U5"}, {"U1"}, {"U5", "A2U1"}}

\* no handler is running and no alert is open
EnReposo == pc = "idle" /\ retorno = "none" /\ alerta = ""

\* the fetch of palabras.json resolves (lines 44-46)
FetchOk ==
    /\ EnReposo
    /\ carga = "pendiente"
    /\ carga' = "cargado"
    /\ baseDeDatosPalabras' \in Vocabularios
    /\ UNCHANGED <<unidadesSeleccionadas, crucigramaActual, alerta, oyentes>>
    /\ UNCHANGED <<builderVars, ce, num, fil, ei>>

\* the fetch fails (lines 47-50)
FetchFail ==
    /\ EnReposo
    /\ carga = "pendiente"
    /\ carga' = "fallido"
    /\ alerta' = ALERTA_ERROR_CARGA
    /\ UNCHANGED <<baseDeDatosPalabras, unidadesSeleccionadas, crucigramaActual,
                   oyentes>>
    /\ UNCHANGED <<builderVars, ce, num, fil, ei>>

\* click on #apply-units (lines 68-77)
AplicarUnidades ==
    /\ EnReposo
    /\ \E seleccionadas \in Selecciones :
          IF seleccionadas = {}
          THEN /\ alerta' = ALERTA_MARCAR_UNIDAD
               /\ UNCHANGED unidadesSeleccionadas
          ELSE /\ unidadesSeleccionadas' = seleccionadas
               /\ UNCHANGED alerta
    /\ UNCHANGED <<carga, baseDeDatosPalabras, crucigramaActual, oyentes>>
    /\ UNCHANGED <<builderVars, ce, num, fil, ei>>

\* the user closes the alert
CerrarAlerta ==
    /\ pc = "idle"
    /\ retorno = "none"
    /\ alerta # ""
    /\ alerta' = ""
    /\ UNCHANGED <<carga, baseDeDatosPalabras, unidadesSeleccionadas,
                   crucigramaActual, oyentes>>
    /\ UNCHANGED <<builderVars, ce, num, fil, ei>>

\* ClickGenerar without the check of palabras.length: generarCrucigrama([])
\* alerts and returns null, which is assigned to crucigramaActual
ClickGenerarSinComprobar ==
    /\ EnReposo
    /\ \E palabras \in {UnidadLexica(obtenerPalabrasPorUnidades(unidadesSeleccionadas))} :
          IF unidadesSeleccionadas = {}
          THEN /\ alerta' = ALERTA_SIN_UNIDADES
               /\ UNCHANGED <<builderVars, crucigramaActual>>
          ELSE IF Len(palabras) = 0
          THEN /\ alerta' = ALERTA_VACIO
               /\ crucigramaActual' = <<>>
               /\ UNCHANGED builderVars
          ELSE /\ oyentes < MaxGeneraciones
               /\ \E f \in Permutations(1..Len(palabras)) :
                      Empezar(Reordenada(palabras, f) \o <<>>, NUM_PALABRAS)
               /\ UNCHANGED <<alerta, crucigramaActual>>
    /\ UNCHANGED <<carga, baseDeDatosPalabras, unidadesSeleccionadas, oyentes>>
    /\ UNCHANGED <<ce, num, fil, ei>>

\* click on #generar-btn, up to the while loop of generarCrucigrama
\* (lines 848-867)
ClickGenerar ==
    /\ EnReposo
    /\ \E palabras \in {UnidadLexica(obtenerPalabrasPorUnidades(unidadesSeleccionadas))} :
          IF unidadesSeleccionadas = {}
          THEN /\ alerta' = ALERTA_SIN_UNIDADES
               /\ UNCHANGED <<builderVars, crucigramaActual>>
          ELSE IF Len(palabras) = 0
          THEN /\ alerta' = ALERTA_NO_ENCONTRADAS
               /\ UNCHANGED <<builderVars, crucigramaActual>>
          ELSE /\ oyentes < MaxGeneraciones
               /\ \E f \in Permutations(1..Len(palabras)) :
                      Empezar(Reordenada(palabras, f) \o <<>>, NUM_PALABRAS)
               /\ UNCHANGED <<alerta, crucigramaActual>>
    /\ UNCHANGED <<carga, baseDeDatosPalabras, unidadesSeleccionadas, oyentes>>
    /\ UNCHANGED <<ce, num, fil, ei>>

\* the rest of the click handler once generarCrucigrama has returned its
\* object (lines 867-873): the assignment, the numbering of dibujarGrid,
\* the listener of configurarVerificacionAutomatica; the locals of the call
\* are gone
AsignarCrucigrama ==
    /\ pc = "idle"
    /\ retorno = "puzzle"
    /\ crucigramaActual' =
           <<[grid |-> grid, palabrasColocadas |-> palabrasColocadas,
              numeros |-> NumerosDe(palabrasColocadas)]>>
    /\ oyentes' = oyentes + 1
    /\ retorno' = "none"
    /\ numPalabras' = 0
    /\ palabrasMezcladas' = <<>>
    /\ grid' = NoGrid
    /\ palabrasColocadas' = <<>>
    /\ palabrasUsadas' = {}
    /\ palabrasColocadasCount' = 0
    /\ intentos' = 0
    /\ UNCHANGED <<pc, carga, baseDeDatosPalabras, unidadesSeleccionadas, alerta>>
    /\ UNCHANGED <<ce, num, fil, ei>>

\* a direct call generarCrucigrama([], n) has returned null
DescartarNulo == retorno = "null" /\ Descartar

\* the page: its handlers, and generarCrucigrama([], n) called directly
NextApp ==
    \/ FetchOk
    \/ FetchFail
    \/ AplicarUnidades
    \/ CerrarAlerta
    \/ ClickGenerar
    \/ IntentoSinCandidata
    \/ IntentoConAncla
    \/ SalirBucle
    \/ Retornar
    \/ AsignarCrucigrama
    \/ GenerarVacio
    \/ DescartarNulo

SpecApp == Init /\ [][NextApp]_vars

\* the pool of the selected units is empty
PoolVacio == Len(obtenerPalabrasPorUnidades(unidadesSeleccionadas)) = 0

\* C8: a generation request whose pool is empty is aborted with a failure
\* signal before any Grid is constructed and before any word is placed:
\* while the signal is shown there is no Grid and no placed word,
\* generarCrucigrama has returned null when it is the one that signals, and
\* the request leaves crucigramaActual as it was.
C8_PoolVacio ==
    /\ [](alerta \in {ALERTA_VACIO, ALERTA_NO_ENCONTRADAS}
            => (pc = "idle" /\ grid = NoGrid /\ palabrasColocadas = <<>>))
    /\ [](alerta = ALERTA_VACIO => retorno = "null")
    /\ [][(GenerarVacio \/ (ClickGenerar /\ PoolVacio))
            => (crucigramaActual' = crucigramaActual /\ grid' = NoGrid
                /\ palabrasColocadas' = <<>> /\ pc' = "idle")]_vars

\* the handler shows its failure signal for an empty pool while an earlier
\* puzzle is the current one
C8_Testigo ==
    /\ alerta = ALERTA_NO_ENCONTRADAS
    /\ PoolVacio
    /\ crucigramaActual # <<>>

\* C9: a generation request that arrives while the vocabulary has not been
\* loaded, or after the fetch failed, does not get the answer of "no words
\* match the selected units": that answer is only given on loaded data.
C9_SinCargar == alerta = ALERTA_NO_ENCONTRADAS => carga = "cargado"

(* ------------------- obtenerPalabrasPorUnidades alone ------------------- *)

\* entries of a palabras.json: [lugar, palabra]
EntradaU5(palabra) == [lugar |-> <<"U","5"," ","#","1">>, palabra |-> palabra]

ENTRADAS ==
    { EntradaU5(gato),
      EntradaU5(<<"G","a","t","o">>),
      EntradaU5(<<"g","a","t","o"," ">>),
      EntradaU5(<<"a","\t","b">>),
      EntradaU5(<<"O","N","G">>),
      EntradaU5(<<"t","e">>),
      EntradaU5(departamento),
      EntradaU5(departamento \o <<"s">>),
      [lugar |-> <<"U","0"," ","#","1">>, palabra |-> <<"e","l"," ","g","a","t","o">>],
      [lugar |-> <<"A","u","l","a"," ","2"," ","U","1"," ","#","7">>, palabra |-> bien],
      [lugar |-> <<>>, palabra |-> Sol] }

\* the unit ids a caller passes
IdsPrueba == {{}, {"U5"}, {"U0"}, {"U1"}, {"U5", "A2U1"}, {"X9"}}

InitFiltro ==
    /\ SinLlamada
    /\ SinBuscar
    /\ SinPrueba
    /\ SinNumerar
    /\ carga = "cargado"
    /\ \E n \in 0..MaxVocabulario : baseDeDatosPalabras \in Listas(ENTRADAS, n)
    /\ unidadesSeleccionadas = {"U5"}
    /\ crucigramaActual = <<>>
    /\ alerta = ""
    /\ oyentes = 0
    /\ \E ids \in IdsPrueba :
          fil = [idsUnidades |-> ids, hecho |-> FALSE, resultado |-> <<>>]

\* the call obtenerPalabrasPorUnidades(fil.idsUnidades)
Filtrar ==
    /\ ~fil.hecho
    /\ fil' = [fil EXCEPT !.hecho = TRUE,
                          !.resultado = obtenerPalabrasPorUnidades(fil.idsUnidades)]
    /\ UNCHANGED <<builderVars, appVars, ce, num, ei>>

NextFiltro == Filtrar

SpecFiltro == InitFiltro /\ [][NextFiltro]_vars

\* the eligibility rules on an entry: its location tag starts with a prefix of
\* a requested unit, its word text has no white space, 3 to 12 characters,
\* and is not fully upper case
Elegible(entrada, ids) ==
    /\ \E id \in ids : \E prefijo \in PREFIJOS_POR_UNIDAD(id) :
           /\ Len(entrada.lugar) >= Len(prefijo)
           /\ \A k \in 1..Len(prefijo) : entrada.lugar[k] = prefijo[k]
    /\ \A k \in 1..Len(entrada.palabra) : entrada.palabra[k] \notin BLANCOS
    /\ Len(entrada.palabra) \in 3..12
    /\ entrada.palabra # toUpperCase(entrada.palabra)

\* the positions of base whose entry is eligible and is the first eligible
\* one with its case-insensitive word text
Primeras(base, ids) ==
    {k \in 1..Len(base) :
        /\ Elegible(base[k], ids)
        /\ \A m \in 1..(k - 1) :
               Elegible(base[m], ids) =>
                   toLowerCase(base[m].palabra) # toLowerCase(base[k].palabra)}

\* the result is the entries at the positions S, in input order
EsSeleccion(resultado, base, S) ==
    /\ Len(resultado) = Cardinality(S)
    /\ \A r \in 1..Len(resultado) :
           \E k \in S : /\ resultado[r] = base[k]
                        /\ Cardinality({m \in S : m < k}) = r - 1

\* C11: obtenerPalabrasPorUnidades returns exactly the entries that satisfy
\* all the eligibility rules, one per case-insensitive word text, the first
\* eligible occurrence in input order; the empty list when no unit is given.
C11_Filtro ==
    fil.hecho =>
        /\ EsSeleccion(fil.resultado, baseDeDatosPalabras,
                       Primeras(baseDeDatosPalabras, fil.idsUnidades))
        /\ (fil.idsUnidades = {} => fil.resultado = <<>>)

(* ------------------------ the steps of the builder ---------------------- *)

\* the candidate of the attempt, upper case
Candidata ==
    toUpperCase(palabrasMezcladas[PrimeraNoUsada(palabrasMezcladas, palabrasUsadas)])

\* the search of the candidate against anchor number a
Busqueda(a) ==
    encontrarInterseccion(grid, palabrasColocadas[a], Candidata,
                          IF palabrasColocadas[a].orientacion = "horizontal"
                          THEN "vertical" ELSE "horizontal")

\* the grid after the step is the grid before it with word w laid from (x, y)
GridConPalabra(w, x, y, orientacion) ==
    \A cy \in 0..(GRID_SIZE - 1) : \A cx \in 0..(GRID_SIZE - 1) :
        grid'.cells[cy][cx] =
            IF \E i \in 0..(Len(w) - 1) : Destino(x, y, orientacion, i) = <<cx, cy>>
            THEN w[(CHOOSE i \in 0..(Len(w) - 1) :
                        Destino(x, y, orientacion, i) = <<cx, cy>>) + 1]
            ELSE grid.cells[cy][cx]

\* the step is an attempt whose search against some anchor failed
IntentoFallido ==
    /\ intentos' = intentos + 1
    /\ grid' = grid
    /\ palabrasColocadas' = palabrasColocadas
    /\ palabrasUsadas' = palabrasUsadas
    /\ palabrasColocadasCount' = palabrasColocadasCount
    /\ \E a \in 1..Len(palabrasColocadas) : Busqueda(a) = <<>>

\* the step is an attempt whose search against some anchor succeeded
IntentoLogrado ==
    /\ Len(palabrasColocadas') = Len(palabrasColocadas) + 1
    /\ \E a \in 1..Len(palabrasColocadas) : \E r \in {Busqueda(a)} :
        /\ r # <<>>
        /\ LET w == palabrasColocadas'[Len(palabrasColocadas')].palabra
               o == IF palabrasColocadas[a].orientacion = "horizontal"
                    THEN "vertical" ELSE "horizontal"
               x == r[1]
               y == r[2]
           IN  /\ w = Candidata
               /\ palabrasColocadas' =
                      palabrasColocadas \o
                          <<[palabra |-> w, x |-> x, y |-> y, orientacion |-> o]>>
               /\ GridConPalabra(w, x, y, o)
               /\ palabrasUsadas' =
                      palabrasUsadas \cup
                          {toLowerCase(palabrasMezcladas[
                               PrimeraNoUsada(palabrasMezcladas, palabrasUsadas)])}
               /\ palabrasColocadasCount' = palabrasColocadasCount + 1
               /\ intentos' = 0

\* C12: in each attempt of the builder, a failed search adds one to the retry
\* counter and leaves the grid, the placed list, the used set and the placed
\* count as they were; a successful search writes the word to the grid,
\* appends it to the placed list, marks it used, adds one to the placed count
\* and sets the retry counter to 0.
C12_Intento ==
    [][(pc = "loop" /\ pc' = "loop") => (IntentoFallido \/ IntentoLogrado)]_vars

\* a call in which an attempt has succeeded and a later one has failed
C12_Testigo ==
    /\ pc = "loop"
    /\ palabrasColocadasCount >= 2
    /\ intentos >= 1

(* ----------------------- encontrarInterseccion alone -------------------- *)

AnclasPrueba ==
    [palabra : {<<"A", "B">>, <<"B", "A", "B">>}, x : 0..(TamPrueba - 1),
     y : 0..(TamPrueba - 1), orientacion : {"horizontal", "vertical"}]

NuevasPrueba == {<<"A", "B">>, <<"B", "A", "A">>, <<"C", "C">>}

\* a grid that holds the anchor word and fewer than MaxOcupadas other letters
GridsConAncla(ancla) ==
    {colocarPalabra(GridCon(o), ancla.palabra, ancla.x, ancla.y, ancla.orientacion) :
        o \in {c \in SUBSET CeldasPrueba : Cardinality(c) < MaxOcupadas}}

InitEI ==
    /\ SinLlamada
    /\ PaginaCargada
    /\ SinPrueba
    /\ SinNumerar
    /\ SinFiltrar
    /\ \E ancla \in AnclasPrueba, nueva \in NuevasPrueba :
       \E g \in GridsConAncla(ancla) :
          ei = [g |-> g, palabraAncla |-> ancla, nuevaPalabra |-> nueva,
                nuevaOrientacion |-> "vertical", hecho |-> FALSE,
                interseccion |-> <<>>]

\* lines 474-477 of generarCrucigrama: nuevaOrientacion and the search
Buscar ==
    /\ ~ei.hecho
    /\ ei.g.size > 0
    /\ \E nuevaOrientacion \in {Perpendicular(ei.palabraAncla.orientacion)} :
          ei' = [ei EXCEPT !.hecho = TRUE,
                           !.nuevaOrientacion = nuevaOrientacion,
                           !.interseccion =
                               encontrarInterseccion(ei.g, ei.palabraAncla,
                                                     ei.nuevaPalabra, nuevaOrientacion)]
    /\ UNCHANGED <<builderVars, appVars, ce, num, fil>>

NextEI == Buscar

SpecEI == InitEI /\ [][NextEI]_vars

\* the start of the new word when its letter i lies on letter j of the anchor
Implicada(ancla, i, j) ==
    IF ancla.orientacion = "horizontal"
    THEN <<ancla.x + j, ancla.y - i>>
    ELSE <<ancla.x - i, ancla.y + j>>

\* the pairs (i, j) with equal letters whose implied position validates with
\* intersection index i
ParesValidos(g, ancla, nueva, orientacion) ==
    {p \in (0..(Len(nueva) - 1)) \X (0..(Len(ancla.palabra) - 1)) :
        /\ nueva[p[1] + 1] = ancla.palabra[p[2] + 1]
        /\ comprobarEspacio(g, nueva, Implicada(ancla, p[1], p[2])[1],
                            Implicada(ancla, p[1], p[2])[2], orientacion, p[1])}

\* p comes before q in the nested order, i outer and j inner
AntesPar(p, q) == p[1] < q[1] \/ (p[1] = q[1] /\ p[2] <= q[2])

\* C13: the new word is perpendicular to its anchor, and
\* encontrarInterseccion returns the placement of the least pair (i, j), i
\* outer and j inner, with equal letters whose implied position validates
\* with intersection index i; it returns null exactly when there is no such
\* pair.
C13_PrimerPar ==
    ei.hecho =>
        LET pares == ParesValidos(ei.g, ei.palabraAncla, ei.nuevaPalabra,
                                  ei.nuevaOrientacion)
        IN  /\ ei.nuevaOrientacion # ei.palabraAncla.orientacion
            /\ (ei.interseccion = <<>>) <=> (pares = {})
            /\ \A p \in pares :
                   (\A q \in pares : AntesPar(p, q)) =>
                       ei.interseccion =
                           <<Implicada(ei.palabraAncla, p[1], p[2])[1],
                             Implicada(ei.palabraAncla, p[1], p[2])[2], p[1], p[2]>>

\* a search that returned a pair although an earlier pair with equal letters
\* did not validate, with a later valid pair left
C13_Testigo ==
    /\ ei.hecho
    /\ ei.interseccion # <<>>
    /\ Cardinality(ParesValidos(ei.g, ei.palabraAncla, ei.nuevaPalabra,
                                ei.nuevaOrientacion)) >= 2
    /\ \E i \in 0..(Len(ei.nuevaPalabra) - 1) :
       \E j \in 0..(Len(ei.palabraAncla.palabra) - 1) :
           /\ ei.nuevaPalabra[i + 1] = ei.palabraAncla.palabra[j + 1]
           /\ AntesPar(<<i, j>>, <<ei.interseccion[3], ei.interseccion[4]>>)
           /\ <<i, j>> # <<ei.interseccion[3], ei.interseccion[4]>>

(* ------------------------ the grid of the builder ----------------------- *)

\* C14: with pool words of 3 to 12 letters, every placed word lies entirely
\* inside the grid: its start cell and its end cell are in bounds.
C14_DentroDelGrid ==
    \A k \in 1..Len(palabrasColocadas) :
        LET w == palabrasColocadas[k]
        IN  /\ esValido(grid, w.x, w.y)
            /\ esValido(grid, CeldaDe(w, Len(w.palabra) - 1)[1],
                        CeldaDe(w, Len(w.palabra) - 1)[2])

\* the cells of the grid that hold a letter
NoVacias ==
    {c \in (0..(grid.size - 1)) \X (0..(grid.size - 1)) : grid.cells[c[2]][c[1]] # NULL}

\* c and d are consecutive cells of placed word w
Consecutivas(w, c, d) ==
    \E i \in 0..(Len(w.palabra) - 2) :
        \/ CeldaDe(w, i) = c /\ CeldaDe(w, i + 1) = d
        \/ CeldaDe(w, i) = d /\ CeldaDe(w, i + 1) = c

\* C15: every non-empty grid cell belongs to at least one placed word, and
\* any two orthogonally adjacent non-empty grid cells are consecutive cells
\* of one and the same placed word.
C15_Celdas ==
    LET llenas == NoVacias
    IN  /\ \A c \in llenas :
               \E k \in 1..Len(palabrasColocadas) :
                   \E i \in Indices(palabrasColocadas[k]) :
                       CeldaDe(palabrasColocadas[k], i) = c
        /\ \A c \in llenas :
               \A d \in {<<c[1] + 1, c[2]>>, <<c[1], c[2] + 1>>} \cap llenas :
                   \E k \in 1..Len(palabrasColocadas) :
                       Consecutivas(palabrasColocadas[k], c, d)

\* a grid with three placed words, two of them of the same orientation
C15_Testigo ==
    /\ pc = "loop"
    /\ Len(palabrasColocadas) >= 3
    /\ Cardinality(NoVacias) >= 9

(* ------------------------- the order of placement ----------------------- *)

\* C16: for a pool of distinct case-insensitive word texts, the placed words
\* in placement order are the first words of the shuffled pool in shuffle
\* order: no word is placed while an earlier-shuffled word is unplaced, also
\* when the earliest unused word fits no anchor and a later word would fit.
C16_PrefijoDeLaMezcla ==
    /\ Len(palabrasColocadas) <= Len(palabrasMezcladas)
    /\ \A k \in 1..Len(palabrasColocadas) :
           palabrasColocadas[k].palabra = toUpperCase(palabrasMezcladas[k])

\* a call that ended after 100 failed attempts of the earliest unused word
\* although a word later in the shuffle fits one of the placed words
C16_Testigo ==
    /\ pc = "fin"
    /\ intentos = MAX_INTENTOS
    /\ \E m \in (Len(palabrasColocadas) + 2)..Len(palabrasMezcladas) :
       \E a \in 1..Len(palabrasColocadas) :
           encontrarInterseccion(grid, palabrasColocadas[a],
                                 toUpperCase(palabrasMezcladas[m]),
                                 IF palabrasColocadas[a].orientacion = "horizontal"
                                 THEN "vertical" ELSE "horizontal") # <<>>

(* --------------------------- the input listeners ------------------------ *)

\* C17: after any number of successful generation requests exactly one
\* automatic-verification input listener is attached to the grid container.
C17_UnOyente == crucigramaActual # <<>> => oyentes = 1

============================================================================
